---- MODULE Spec2Model ----
(***************************************************************************)
(* Booking backend (admin + pricing variant): the Express handlers over    *)
(* the tables reservas and precios, the in-memory admin token set and the  *)
(* token expiry timers.  Every handler is split at its await points: the   *)
(* synchronous prefix (gate, validation) is one step, each store query one *)
(* step, the webhook call one step.                                        *)
(***************************************************************************)
EXTENDS Integers, Sequences, FiniteSets, TLC

\* -------------------------------------------------------------- bounds
MaxRows == 2      \* rows the reservas table may hold
MaxTokens == 2    \* tokens generarToken may mint

\* Request slots: at most two handlers are suspended at the same time.
Reqs == {1, 2}

\* ------------------------------------------------------ JSON / JS values
\* A value of a request body, query string or route parameter.
Undef == [t |-> "undef", s |-> "", n |-> 0]
Null == [t |-> "null", s |-> "", n |-> 0]
Str(x) == [t |-> "str", s |-> x, n |-> 0]
Num(k) == [t |-> "num", s |-> "", n |-> k]

\* A presence test that lets the empty string and zero through.
Falsy_SoloUndef(v) == v.t = "undef" \/ v.t = "null"

\* JavaScript !v
Falsy(v) ==
  \/ v.t = "undef"
  \/ v.t = "null"
  \/ v.t = "str" /\ v.s = ""
  \/ v.t = "num" /\ v.n = 0

\* ------------------------------------------------------- configuration
adminEmail == "admin@picodeportes.com"
adminPass == "PicoAdmin2025"
PrecioInicial == 8000
LimiteReservas == 500

\* Fields seeded into precios at startup (two of the twelve seeded names).
canchas == {"Padel 1", "Padel 2"}

\* ------------------------------------------------------- request inputs
\* Reservation bodies.  Four slots that differ from the first in cancha, in
\* fecha and in horario; a body without deporte and one without precio
\* (columns that are NOT NULL but not validated); and for each required
\* field a body that leaves it out and one that leaves it empty.
Campos == {"nombre", "apellido", "whatsapp", "cancha", "fecha", "horario"}
CuerpoBase ==
  [nombre |-> Str("Ana"), apellido |-> Str("Paz"), whatsapp |-> Str("555"),
   deporte |-> Str("padel"), cancha |-> Str("Padel 1"),
   fecha |-> Str("2025-06-01"), horario |-> Str("18:00"),
   precio |-> Num(8000)]
CuerposCompletos ==
  { CuerpoBase,
    [CuerpoBase EXCEPT !.cancha = Str("Padel 2")],
    [CuerpoBase EXCEPT !.fecha = Str("2025-06-02")],
    [CuerpoBase EXCEPT !.horario = Str("19:00")] }
CuerposSinColumna ==
  { [CuerpoBase EXCEPT !.deporte = Undef],
    [CuerpoBase EXCEPT !.precio = Undef] }
CuerposIncompletos ==
  {[CuerpoBase EXCEPT ![f] = v] : f \in Campos, v \in {Undef, Str("")}}
CuerposReservar == CuerposCompletos \cup CuerposSinColumna \cup CuerposIncompletos

\* Price updates: a seeded field or an unknown one, a price or none.
CuerposPrecio ==
  [cancha : {Undef, Str(""), Str("Padel 1"), Str("Padel 2"), Str("Otra")},
   precio : {Undef, Null, Num(0), Num(9000)}]

\* Availability queries.
ConsultasDisponibilidad ==
  [cancha : {Undef, Str("Padel 1"), Str("Padel 2")},
   fecha : {Str(""), Str("2025-06-01"), Str("2025-06-02")}]

\* Login bodies.
CuerposLogin ==
  [email : {adminEmail, "otro@picodeportes.com"},
   password : {adminPass, "mala"}]

VARIABLES
  reservas,       \* table reservas: sequence of rows in creation order
  serial,         \* last value handed out by the sequence behind reservas.id
                  \* (a value a failed INSERT may burn is not counted)
  precios,        \* table precios: cancha -> precio
  tokens,         \* the Set of live admin tokens
  timers,         \* tokens whose setTimeout expiry callback is still pending
  minted,         \* number of tokens generarToken has produced
  webhookUrl,     \* whether process.env.N8N_WEBHOOK_URL is set
  webhookCalls,   \* reservation ids the webhook was called with, in order
  op,             \* per request slot: the route being handled
  pc,             \* per request slot: the await the handler is suspended at
  arg,            \* per request slot: the request and the handler's locals
  resp,           \* the response sent by the last step, with its request
  solapadas       \* history: an occupancy check passed while another handler
                  \* for the same slot was between its check and its insert

vars == <<reservas, serial, precios, tokens, timers, minted, webhookUrl,
          webhookCalls, op, pc, arg, resp, solapadas>>

store == <<reservas, serial, precios>>
sesiones == <<tokens, timers, minted>>

\* ------------------------------------------------------------- tokens
\* A generator that hands out the same token every time.
generarToken_Fijo(k) == "tok1"

\* crypto.randomBytes(32).toString('hex'): the k-th token minted.  Distinct
\* calls give distinct tokens (a collision has probability 2^-256).
generarToken(k) == "tok" \o ToString(k)

\* An Authorization header value is a sequence of pieces: the word
\* "Bearer", a blank " ", or a token-like word.  The empty sequence is the
\* absent (or empty) header.
SinBearer(h) ==
  IF \E i \in 1..(Len(h) - 1) : h[i] = "Bearer" /\ h[i + 1] = " "
  THEN LET i == CHOOSE j \in 1..(Len(h) - 1) :
                  /\ h[j] = "Bearer" /\ h[j + 1] = " "
                  /\ \A k \in 1..(j - 1) : ~(h[k] = "Bearer" /\ h[k + 1] = " ")
       IN SubSeq(h, 1, i - 1) \o SubSeq(h, i + 2, Len(h))
  ELSE h

RECURSIVE TrimIzq(_)
TrimIzq(h) == IF h # <<>> /\ Head(h) = " " THEN TrimIzq(Tail(h)) ELSE h

RECURSIVE TrimDer(_)
TrimDer(h) ==
  IF h # <<>> /\ h[Len(h)] = " " THEN TrimDer(SubSeq(h, 1, Len(h) - 1)) ELSE h

RECURSIVE Texto(_)
Texto(h) == IF h = <<>> THEN "" ELSE Head(h) \o Texto(Tail(h))

\* auth.replace('Bearer ', '').trim()
tokenDe(h) == Texto(TrimDer(TrimIzq(SinBearer(h))))

\* A gate that lets every request through.
validarToken_Siempre(h) == TRUE

validarToken(h) == tokenDe(h) \in tokens

\* Header values a client can send: nothing, or a token it has seen minted
\* (or a made-up one) in one of these shapes.
Conocidos == {generarToken(k) : k \in 1..minted} \cup {"falso"}
Formas(t) ==
  { <<"Bearer", " ", t>>, <<t>>, <<"Bearer", " ", " ", t, " ">>,
    <<"Bearer", " ", "Bearer", " ", t>> }
Cabeceras == {<<>>} \cup UNION {Formas(t) : t \in Conocidos}

\* ---------------------------------------------------------- responses
\* A response: the route, the status and the members of the JSON body.  A
\* response sent before the handler's first await also carries the request
\* it answers; a suspended handler's request is in arg.
Respuesta(o, q, st) ==
  [op |-> o, status |-> st, req |-> q, id |-> 0, token |-> "",
   ocupados |-> <<>>, precios |-> <<>>, filas |-> <<>>, webhook |-> ""]
NoResp == Respuesta("none", <<>>, 0)

Libre(r) == pc[r] = "idle"

\* The handler of slot r has returned: its locals are gone.
Termina(r) ==
  /\ op' = [op EXCEPT ![r] = "none"]
  /\ pc' = [pc EXCEPT ![r] = "idle"]
  /\ arg' = [arg EXCEPT ![r] = <<>>]

\* The handler of slot r suspends at the await named p.
Espera(r, o, p, a) ==
  /\ op' = [op EXCEPT ![r] = o]
  /\ pc' = [pc EXCEPT ![r] = p]
  /\ arg' = [arg EXCEPT ![r] = a]

\* ------------------------------------------------------------ queries
\* The occupancy SELECT with fecha and horario bound to each other's
\* parameter.
Ocupantes_Cruzados(c, f, h) ==
  {i \in 1..Len(reservas) :
     /\ reservas[i].cancha = c
     /\ reservas[i].fecha = h
     /\ reservas[i].horario = f
     /\ reservas[i].estado # "cancelada"}

\* The occupancy SELECT without the estado filter.
Ocupantes_SinEstado(c, f, h) ==
  {i \in 1..Len(reservas) :
     /\ reservas[i].cancha = c
     /\ reservas[i].fecha = f
     /\ reservas[i].horario = h}

\* SELECT id FROM reservas WHERE cancha = $1 AND fecha = $2 AND horario = $3
\*   AND estado != 'cancelada'
Ocupantes(c, f, h) ==
  {i \in 1..Len(reservas) :
     /\ reservas[i].cancha = c
     /\ reservas[i].fecha = f
     /\ reservas[i].horario = h
     /\ reservas[i].estado # "cancelada"}

\* check.rows.length > 0, with a slip of one
Ocupado_MasDeUno(c, f, h) == Cardinality(Ocupantes(c, f, h)) > 1

\* check.rows.length > 0
Ocupado(c, f, h) == Cardinality(Ocupantes(c, f, h)) > 0

RECURSIVE Filtrar_SinRepetir(_, _, _)
\* The availability SELECT with DISTINCT.
Filtrar_SinRepetir(filas, c, f) ==
  IF filas = <<>> THEN <<>>
  ELSE LET x == Head(filas)
           resto == Filtrar_SinRepetir(Tail(filas), c, f)
       IN IF /\ x.cancha = c /\ x.fecha = f /\ x.estado # "cancelada"
             /\ \A i \in 1..Len(resto) : resto[i] # x.horario
          THEN <<x.horario>> \o resto
          ELSE resto

RECURSIVE Filtrar(_, _, _)
\* SELECT horario FROM reservas WHERE cancha = $1 AND fecha = $2
\*   AND estado != 'cancelada'
Filtrar(filas, c, f) ==
  IF filas = <<>> THEN <<>>
  ELSE LET x == Head(filas)
           resto == Filtrar(Tail(filas), c, f)
       IN IF x.cancha = c /\ x.fecha = f /\ x.estado # "cancelada"
          THEN <<x.horario>> \o resto
          ELSE resto

Ocupados(c, f) == Filtrar(reservas, c, f)

\* The UPDATE flipping estado instead of setting it.
Cancelada_Alterna(filas, id) ==
  [i \in 1..Len(filas) |->
     IF filas[i].id = id
     THEN [filas[i] EXCEPT !.estado = IF @ = "cancelada" THEN "confirmada"
                                      ELSE "cancelada"]
     ELSE filas[i]]

RECURSIVE Cancelada_Borra(_, _)
\* A DELETE instead of the UPDATE.
Cancelada_Borra(filas, id) ==
  IF filas = <<>> THEN <<>>
  ELSE IF Head(filas).id = id THEN Cancelada_Borra(Tail(filas), id)
       ELSE <<Head(filas)>> \o Cancelada_Borra(Tail(filas), id)

\* UPDATE reservas SET estado = 'cancelada' WHERE id = $1
Cancelada(filas, id) ==
  [i \in 1..Len(filas) |->
     IF filas[i].id = id THEN [filas[i] EXCEPT !.estado = "cancelada"]
     ELSE filas[i]]

\* The UPDATE without its WHERE clause.
Actualizado_Todas(tabla, c, p) == [x \in DOMAIN tabla |-> p]

\* UPDATE precios SET precio = $1, actualizado = NOW() WHERE cancha = $2
Actualizado(tabla, c, p) ==
  [x \in DOMAIN tabla |-> IF x = c THEN p ELSE tabla[x]]

\* The INSERT with another estado than the column default.
Fila_Pendiente(b, id) ==
  [id |-> id, nombre |-> b.nombre.s, apellido |-> b.apellido.s,
   whatsapp |-> b.whatsapp.s, deporte |-> b.deporte.s, cancha |-> b.cancha.s,
   fecha |-> b.fecha.s, horario |-> b.horario.s, precio |-> b.precio.n,
   estado |-> "pendiente"]

\* INSERT INTO reservas (...) VALUES (...) RETURNING id: the new row, with
\* the id the sequence hands out and the column default of estado.
Fila(b, id) ==
  [id |-> id, nombre |-> b.nombre.s, apellido |-> b.apellido.s,
   whatsapp |-> b.whatsapp.s, deporte |-> b.deporte.s, cancha |-> b.cancha.s,
   fecha |-> b.fecha.s, horario |-> b.horario.s, precio |-> b.precio.n,
   estado |-> "confirmada"]

\* The NOT NULL columns the handler does not validate.
Insertable(b) == b.deporte.t = "str" /\ b.precio.t = "num"

RECURSIVE Invertida(_)
Invertida(filas) ==
  IF filas = <<>> THEN <<>> ELSE Invertida(Tail(filas)) \o <<Head(filas)>>

\* SELECT * FROM reservas ORDER BY fecha_creacion DESC LIMIT 500
Listado ==
  LET inv == Invertida(reservas)
  IN SubSeq(inv, 1, IF Len(inv) < LimiteReservas THEN Len(inv) ELSE LimiteReservas)

\* ------------------------------------------------------------- state
Init ==
  /\ reservas = <<>>
  /\ serial = 0
  /\ precios = [c \in canchas |-> PrecioInicial]
  /\ tokens = {}
  /\ timers = {}
  /\ minted = 0
  /\ webhookUrl \in BOOLEAN
  /\ webhookCalls = <<>>
  /\ op = [r \in Reqs |-> "none"]
  /\ pc = [r \in Reqs |-> "idle"]
  /\ arg = [r \in Reqs |-> <<>>]
  /\ resp = NoResp
  /\ solapadas = FALSE

\* ------------------------------------------------------ GET /health
Health ==
  /\ resp' = Respuesta("health", <<>>, 200)
  /\ UNCHANGED <<store, sesiones, webhookUrl, webhookCalls, op, pc, arg,
                 solapadas>>

\* ------------------------------------------------- POST /admin/login
Login(b) ==
  /\ IF b.email = adminEmail /\ b.password = adminPass
     THEN /\ minted < MaxTokens
          /\ LET token == generarToken(minted + 1)
             IN /\ tokens' = tokens \cup {token}
                /\ timers' = timers \cup {token}
                /\ minted' = minted + 1
                /\ resp' = [Respuesta("login", b, 200) EXCEPT !.token = token]
     ELSE /\ resp' = Respuesta("login", b, 401)
          /\ UNCHANGED sesiones
  /\ UNCHANGED <<store, webhookUrl, webhookCalls, op, pc, arg, solapadas>>

\* The callback firing without deleting its token.
Expira_SinBorrar(t) ==
  /\ t \in timers
  /\ timers' = timers \ {t}
  /\ resp' = NoResp
  /\ UNCHANGED <<store, tokens, minted, webhookUrl, webhookCalls, op, pc, arg,
                 solapadas>>

\* The setTimeout callback of a login fires: tokens.delete(token).
Expira(t) ==
  /\ t \in timers
  /\ timers' = timers \ {t}
  /\ tokens' = tokens \ {t}
  /\ resp' = NoResp
  /\ UNCHANGED <<store, minted, webhookUrl, webhookCalls, op, pc, arg,
                 solapadas>>

\* ------------------------------------------------ POST /admin/logout
\* The logout deleting the header value as it came, "Bearer " included.
Logout_SinExtraer(h) ==
  /\ tokens' = tokens \ {Texto(h)}
  /\ resp' = Respuesta("logout", [auth |-> h], 200)
  /\ UNCHANGED <<store, timers, minted, webhookUrl, webhookCalls, op, pc,
                 arg, solapadas>>

Logout(h) ==
  /\ tokens' = tokens \ {tokenDe(h)}
  /\ resp' = Respuesta("logout", [auth |-> h], 200)
  /\ UNCHANGED <<store, timers, minted, webhookUrl, webhookCalls, op, pc,
                 arg, solapadas>>

\* ------------------------------------------------------ GET /precios
PreciosStart(r) ==
  /\ Libre(r)
  /\ Espera(r, "precios", "query", <<>>)
  /\ resp' = NoResp
  /\ UNCHANGED <<store, sesiones, webhookUrl, webhookCalls, solapadas>>

PreciosQuery(r) ==
  /\ op[r] = "precios" /\ pc[r] = "query"
  /\ \/ resp' = [Respuesta("precios", <<>>, 200) EXCEPT !.precios = precios]
     \/ resp' = Respuesta("precios", <<>>, 500)
  /\ Termina(r)
  /\ UNCHANGED <<store, sesiones, webhookUrl, webhookCalls, solapadas>>

\* ----------------------------------------------- POST /admin/precios
\* The validation testing precio with ! as it tests cancha.
AdminPreciosStart_Falsy(r, h, b) ==
  /\ Libre(r)
  /\ LET q == [auth |-> h, body |-> b]
     IN IF ~validarToken(h)
        THEN /\ resp' = Respuesta("admin_precios", [auth |-> h], 401)
             /\ UNCHANGED <<op, pc, arg>>
        ELSE IF Falsy(b.cancha) \/ Falsy(b.precio)
        THEN /\ resp' = Respuesta("admin_precios", q, 400)
             /\ UNCHANGED <<op, pc, arg>>
        ELSE /\ Espera(r, "admin_precios", "query", q)
             /\ resp' = NoResp
  /\ UNCHANGED <<store, sesiones, webhookUrl, webhookCalls, solapadas>>

AdminPreciosStart(r, h, b) ==
  /\ Libre(r)
  /\ LET q == [auth |-> h, body |-> b]
     IN IF ~validarToken(h)
        THEN /\ resp' = Respuesta("admin_precios", [auth |-> h], 401)
             /\ UNCHANGED <<op, pc, arg>>
        ELSE IF Falsy(b.cancha) \/ b.precio.t = "undef"
        THEN /\ resp' = Respuesta("admin_precios", q, 400)
             /\ UNCHANGED <<op, pc, arg>>
        ELSE /\ Espera(r, "admin_precios", "query", q)
             /\ resp' = NoResp
  /\ UNCHANGED <<store, sesiones, webhookUrl, webhookCalls, solapadas>>

\* The UPDATE runs; a NULL price violates NOT NULL in the row it would
\* change, and any query may fail.
AdminPreciosQuery(r) ==
  /\ op[r] = "admin_precios" /\ pc[r] = "query"
  /\ \/ /\ \/ arg[r].body.precio.t = "num"
           \/ arg[r].body.cancha.s \notin DOMAIN precios
        /\ precios' = Actualizado(precios, arg[r].body.cancha.s,
                                  arg[r].body.precio.n)
        /\ resp' = Respuesta("admin_precios", <<>>, 200)
     \/ /\ UNCHANGED precios
        /\ resp' = Respuesta("admin_precios", <<>>, 500)
  /\ Termina(r)
  /\ UNCHANGED <<reservas, serial, sesiones, webhookUrl, webhookCalls,
                 solapadas>>

\* ----------------------------------------------- GET /disponibilidad
DisponibilidadStart(r, q) ==
  /\ Libre(r)
  /\ IF Falsy(q.cancha) \/ Falsy(q.fecha)
     THEN /\ resp' = Respuesta("disponibilidad", q, 400)
          /\ UNCHANGED <<op, pc, arg>>
     ELSE /\ Espera(r, "disponibilidad", "query", q)
          /\ resp' = NoResp
  /\ UNCHANGED <<store, sesiones, webhookUrl, webhookCalls, solapadas>>

DisponibilidadQuery(r) ==
  /\ op[r] = "disponibilidad" /\ pc[r] = "query"
  /\ \/ resp' = [Respuesta("disponibilidad", <<>>, 200) EXCEPT
                   !.ocupados = Ocupados(arg[r].cancha.s, arg[r].fecha.s)]
     \/ resp' = Respuesta("disponibilidad", <<>>, 500)
  /\ Termina(r)
  /\ UNCHANGED <<store, sesiones, webhookUrl, webhookCalls, solapadas>>

\* ---------------------------------------------------- POST /reservar
\* Reservation handlers that may still insert a row.
PorInsertar ==
  {x \in Reqs : op[x] = "reservar" /\ pc[x] \in {"check", "insert"}}

ReservarStart(r, b) ==
  /\ Libre(r)
  /\ IF \E f \in Campos : Falsy(b[f])
     THEN /\ resp' = Respuesta("reservar", [body |-> b, reservaId |-> 0], 400)
          /\ UNCHANGED <<op, pc, arg>>
     ELSE /\ Len(reservas) + Cardinality(PorInsertar) < MaxRows
          /\ Espera(r, "reservar", "check", [body |-> b, reservaId |-> 0])
          /\ resp' = NoResp
  /\ UNCHANGED <<store, sesiones, webhookUrl, webhookCalls, solapadas>>

\* Another handler for the slot of b has passed its check and not inserted.
Solapa(r, b) ==
  \E x \in Reqs \ {r} :
    /\ op[x] = "reservar" /\ pc[x] = "insert"
    /\ arg[x].body.cancha = b.cancha
    /\ arg[x].body.fecha = b.fecha
    /\ arg[x].body.horario = b.horario

\* The occupancy SELECT returns (or fails) and the handler goes on.
ReservarCheck(r) ==
  /\ op[r] = "reservar" /\ pc[r] = "check"
  /\ LET b == arg[r].body
     IN \/ /\ Ocupado(b.cancha.s, b.fecha.s, b.horario.s)
           /\ resp' = Respuesta("reservar", <<>>, 409)
           /\ Termina(r)
           /\ UNCHANGED solapadas
        \/ /\ ~Ocupado(b.cancha.s, b.fecha.s, b.horario.s)
           /\ Espera(r, "reservar", "insert", arg[r])
           /\ resp' = NoResp
           /\ solapadas' = (solapadas \/ Solapa(r, b))
        \/ /\ resp' = Respuesta("reservar", <<>>, 500)
           /\ Termina(r)
           /\ UNCHANGED solapadas
  /\ UNCHANGED <<store, sesiones, webhookUrl, webhookCalls>>

\* An INSERT that looks at the slot again and refuses a taken one.
ReservarInsert_Revisa(r) ==
  /\ op[r] = "reservar" /\ pc[r] = "insert"
  /\ LET b == arg[r].body
         reservaId == serial + 1
     IN \/ /\ Insertable(b)
           /\ ~Ocupado(b.cancha.s, b.fecha.s, b.horario.s)
           /\ reservas' = Append(reservas, Fila(b, reservaId))
           /\ serial' = reservaId
           /\ IF webhookUrl
              THEN /\ webhookCalls' = Append(webhookCalls, reservaId)
                   /\ Espera(r, "reservar", "webhook",
                             [arg[r] EXCEPT !.reservaId = reservaId])
                   /\ resp' = NoResp
              ELSE /\ UNCHANGED webhookCalls
                   /\ resp' = [Respuesta("reservar", <<>>, 200) EXCEPT
                                 !.id = reservaId]
                   /\ Termina(r)
        \/ /\ Ocupado(b.cancha.s, b.fecha.s, b.horario.s)
           /\ UNCHANGED <<reservas, serial, webhookCalls>>
           /\ resp' = Respuesta("reservar", <<>>, 409)
           /\ Termina(r)
        \/ /\ UNCHANGED <<reservas, serial, webhookCalls>>
           /\ resp' = Respuesta("reservar", <<>>, 500)
           /\ Termina(r)
  /\ UNCHANGED <<precios, sesiones, webhookUrl, solapadas>>

\* An INSERT whose failure leaves the new row behind.
ReservarInsert_FilaHuerfana(r) ==
  /\ op[r] = "reservar" /\ pc[r] = "insert"
  /\ LET b == arg[r].body
         reservaId == serial + 1
     IN \/ /\ Insertable(b)
           /\ reservas' = Append(reservas, Fila(b, reservaId))
           /\ serial' = reservaId
           /\ IF webhookUrl
              THEN /\ webhookCalls' = Append(webhookCalls, reservaId)
                   /\ Espera(r, "reservar", "webhook",
                             [arg[r] EXCEPT !.reservaId = reservaId])
                   /\ resp' = NoResp
              ELSE /\ UNCHANGED webhookCalls
                   /\ resp' = [Respuesta("reservar", <<>>, 200) EXCEPT
                                 !.id = reservaId]
                   /\ Termina(r)
        \/ /\ reservas' = Append(reservas, Fila(b, reservaId))
           /\ serial' = reservaId
           /\ UNCHANGED webhookCalls
           /\ resp' = Respuesta("reservar", <<>>, 500)
           /\ Termina(r)
  /\ UNCHANGED <<precios, sesiones, webhookUrl, solapadas>>

\* The INSERT returns (or fails); with a webhook URL the handler calls
\* fetch and suspends on it, without one it responds.
ReservarInsert(r) ==
  /\ op[r] = "reservar" /\ pc[r] = "insert"
  /\ LET b == arg[r].body
         reservaId == serial + 1
     IN \/ /\ Insertable(b)
           /\ reservas' = Append(reservas, Fila(b, reservaId))
           /\ serial' = reservaId
           /\ IF webhookUrl
              THEN /\ webhookCalls' = Append(webhookCalls, reservaId)
                   /\ Espera(r, "reservar", "webhook",
                             [arg[r] EXCEPT !.reservaId = reservaId])
                   /\ resp' = NoResp
              ELSE /\ UNCHANGED webhookCalls
                   /\ resp' = [Respuesta("reservar", <<>>, 200) EXCEPT
                                 !.id = reservaId]
                   /\ Termina(r)
        \/ /\ UNCHANGED <<reservas, serial, webhookCalls>>
           /\ resp' = Respuesta("reservar", <<>>, 500)
           /\ Termina(r)
  /\ UNCHANGED <<precios, sesiones, webhookUrl, solapadas>>

\* A rejected fetch being attempted a second time before the response.
ReservarWebhook_Reintenta(r) ==
  /\ op[r] = "reservar" /\ pc[r] = "webhook"
  /\ \E w \in {"ok", "error"} :
       /\ resp' = [Respuesta("reservar", <<>>, 200) EXCEPT
                     !.id = arg[r].reservaId, !.webhook = w]
       /\ webhookCalls' = IF w = "error"
                          THEN Append(webhookCalls, arg[r].reservaId)
                          ELSE webhookCalls
  /\ Termina(r)
  /\ UNCHANGED <<store, sesiones, webhookUrl, solapadas>>

\* A rejected fetch ending the handler before it responds.
ReservarWebhook_Cuelga(r) ==
  /\ op[r] = "reservar" /\ pc[r] = "webhook"
  /\ \/ resp' = [Respuesta("reservar", <<>>, 200) EXCEPT
                   !.id = arg[r].reservaId, !.webhook = "ok"]
     \/ resp' = NoResp
  /\ Termina(r)
  /\ UNCHANGED <<store, sesiones, webhookUrl, webhookCalls, solapadas>>

\* fetch resolves or rejects; the rejection is logged and swallowed.
ReservarWebhook(r) ==
  /\ op[r] = "reservar" /\ pc[r] = "webhook"
  /\ \E w \in {"ok", "error"} :
       resp' = [Respuesta("reservar", <<>>, 200) EXCEPT
                  !.id = arg[r].reservaId, !.webhook = w]
  /\ Termina(r)
  /\ UNCHANGED <<store, sesiones, webhookUrl, webhookCalls, solapadas>>

\* ------------------------------------------------ POST /cancelar/:id
\* Route parameters a client sends: a decimal id, or a word that is none.
IdsReq == {Num(k) : k \in 1..MaxRows} \cup {Str("abc")}

CancelarStart(r, h, id) ==
  /\ Libre(r)
  /\ LET q == [auth |-> h, id |-> id]
     IN IF ~validarToken(h)
        THEN /\ resp' = Respuesta("cancelar", [auth |-> h], 401)
             /\ UNCHANGED <<op, pc, arg>>
        ELSE /\ Espera(r, "cancelar", "query", q)
             /\ resp' = NoResp
  /\ UNCHANGED <<store, sesiones, webhookUrl, webhookCalls, solapadas>>

\* The UPDATE runs; a parameter that is no integer makes the query fail.
CancelarQuery(r) ==
  /\ op[r] = "cancelar" /\ pc[r] = "query"
  /\ \/ /\ arg[r].id.t = "num"
        /\ reservas' = Cancelada(reservas, arg[r].id.n)
        /\ resp' = Respuesta("cancelar", <<>>, 200)
     \/ /\ UNCHANGED reservas
        /\ resp' = Respuesta("cancelar", <<>>, 500)
  /\ Termina(r)
  /\ UNCHANGED <<serial, precios, sesiones, webhookUrl, webhookCalls,
                 solapadas>>

\* ----------------------------------------------------- GET /reservas
ReservasStart(r, h) ==
  /\ Libre(r)
  /\ LET q == [auth |-> h]
     IN IF ~validarToken(h)
        THEN /\ resp' = Respuesta("reservas", q, 401)
             /\ UNCHANGED <<op, pc, arg>>
        ELSE /\ Espera(r, "reservas", "query", q)
             /\ resp' = NoResp
  /\ UNCHANGED <<store, sesiones, webhookUrl, webhookCalls, solapadas>>

ReservasQuery(r) ==
  /\ op[r] = "reservas" /\ pc[r] = "query"
  /\ \/ resp' = [Respuesta("reservas", <<>>, 200) EXCEPT !.filas = Listado]
     \/ resp' = Respuesta("reservas", <<>>, 500)
  /\ Termina(r)
  /\ UNCHANGED <<store, sesiones, webhookUrl, webhookCalls, solapadas>>

\* ------------------------------------------------------ specification
Next ==
  \/ Health
  \/ \E b \in CuerposLogin : Login(b)
  \/ \E t \in timers : Expira(t)
  \/ \E h \in Cabeceras : Logout(h)
  \/ \E r \in Reqs :
       \/ PreciosStart(r)
       \/ PreciosQuery(r)
       \/ \E h \in Cabeceras, b \in CuerposPrecio : AdminPreciosStart(r, h, b)
       \/ AdminPreciosQuery(r)
       \/ \E q \in ConsultasDisponibilidad : DisponibilidadStart(r, q)
       \/ DisponibilidadQuery(r)
       \/ \E b \in CuerposReservar : ReservarStart(r, b)
       \/ ReservarCheck(r)
       \/ ReservarInsert(r)
       \/ ReservarWebhook(r)
       \/ \E h \in Cabeceras : CancelarStart(r, h, Num(1))
       \/ CancelarQuery(r)
       \/ \E h \in Cabeceras : ReservasStart(r, h)
       \/ ReservasQuery(r)

Spec == Init /\ [][Next]_vars

\* The reservation lifecycle: Spec with one admin session, the clients
\* sending complete bookings (one of them without deporte), the admin
\* sending its token as "Bearer <token>", and no price traffic.
CuerposCiclo == CuerposCompletos \cup {[CuerpoBase EXCEPT !.deporte = Undef]}
CabecerasCiclo == {<<"Bearer", " ", t>> : t \in tokens}
ConsultasCiclo ==
  { [cancha |-> Str("Padel 1"), fecha |-> Str("2025-06-01")],
    [cancha |-> Str("Padel 2"), fecha |-> Str("2025-06-01")],
    [cancha |-> Str("Padel 1"), fecha |-> Str("2025-06-02")] }

NextReservas ==
  \/ minted = 0 /\ Login([email |-> adminEmail, password |-> adminPass])
  \/ \E r \in Reqs :
       \/ \E q \in ConsultasCiclo : DisponibilidadStart(r, q)
       \/ DisponibilidadQuery(r)
       \/ \E b \in CuerposCiclo : ReservarStart(r, b)
       \/ ReservarCheck(r)
       \/ ReservarInsert(r)
       \/ ReservarWebhook(r)
       \/ \E h \in CabecerasCiclo, id \in IdsReq : CancelarStart(r, h, id)
       \/ CancelarQuery(r)

SpecReservas == Init /\ [][NextReservas]_vars

\* The admin session: Spec with every login body and every Authorization
\* header, one handler suspended at a time, a single booking, cancellations
\* of id 1 and two price bodies (one of them without cancha).
CuerposPrecioSesion ==
  { [cancha |-> Str("Padel 1"), precio |-> Num(9000)],
    [cancha |-> Undef, precio |-> Num(9000)] }

NextAdmin ==
  \/ Health
  \/ \E b \in CuerposLogin : Login(b)
  \/ \E t \in timers : Expira(t)
  \/ \E h \in Cabeceras : Logout(h)
  \/ \E r \in {1} :
       \/ reservas = <<>> /\ ReservarStart(r, CuerpoBase)
       \/ ReservarCheck(r)
       \/ ReservarInsert(r)
       \/ ReservarWebhook(r)
       \/ \E h \in Cabeceras : CancelarStart(r, h, Num(1))
       \/ CancelarQuery(r)
       \/ \E h \in Cabeceras : ReservasStart(r, h)
       \/ ReservasQuery(r)
       \/ \E h \in Cabeceras, b \in CuerposPrecioSesion :
            AdminPreciosStart(r, h, b)
       \/ AdminPreciosQuery(r)

SpecAdmin == Init /\ [][NextAdmin]_vars

\* The price table: Spec with one admin session, the admin sending its
\* token as "Bearer <token>", every price body, and no booking traffic.
NextPrecios ==
  \/ minted = 0 /\ Login([email |-> adminEmail, password |-> adminPass])
  \/ \E r \in Reqs :
       \/ PreciosStart(r)
       \/ PreciosQuery(r)
       \/ \E h \in CabecerasCiclo, b \in CuerposPrecio :
            AdminPreciosStart(r, h, b)
       \/ AdminPreciosQuery(r)

SpecPrecios == Init /\ [][NextPrecios]_vars

\* Validation: Spec with the public routes only, every reservation body and
\* every availability query.
NextValidar ==
  \E r \in Reqs :
    \/ \E q \in ConsultasDisponibilidad : DisponibilidadStart(r, q)
    \/ DisponibilidadQuery(r)
    \/ \E b \in CuerposReservar : ReservarStart(r, b)
    \/ ReservarCheck(r)
    \/ ReservarInsert(r)
    \/ ReservarWebhook(r)

SpecValidar == Init /\ [][NextValidar]_vars

\* Store failures: Spec with one admin session and every route that queries
\* the store, each with inputs the store accepts and inputs it refuses (a
\* booking without deporte, a price of null, an id that is no integer).
CuerposFallo == {CuerpoBase, [CuerpoBase EXCEPT !.deporte = Undef]}
CuerposPrecioFallo ==
  { [cancha |-> Str("Padel 1"), precio |-> Num(9000)],
    [cancha |-> Str("Padel 1"), precio |-> Null] }

NextFallos ==
  \/ minted = 0 /\ Login([email |-> adminEmail, password |-> adminPass])
  \/ \E r \in Reqs :
       \/ PreciosStart(r)
       \/ PreciosQuery(r)
       \/ \E h \in CabecerasCiclo, b \in CuerposPrecioFallo :
            AdminPreciosStart(r, h, b)
       \/ AdminPreciosQuery(r)
       \/ DisponibilidadStart(r, [cancha |-> Str("Padel 1"),
                                  fecha |-> Str("2025-06-01")])
       \/ DisponibilidadQuery(r)
       \/ \E b \in CuerposFallo : ReservarStart(r, b)
       \/ ReservarCheck(r)
       \/ ReservarInsert(r)
       \/ ReservarWebhook(r)
       \/ \E h \in CabecerasCiclo, id \in IdsReq : CancelarStart(r, h, id)
       \/ CancelarQuery(r)
       \/ \E h \in CabecerasCiclo : ReservasStart(r, h)
       \/ ReservasQuery(r)

SpecFallos == Init /\ [][NextFallos]_vars

\* Responses: Spec with the public routes, bookings of one slot (one of them
\* without deporte, one without horario) and one availability query, where
\* every store query and every webhook call that is pending settles: the
\* continuation of an await runs once its promise resolves or rejects.
CuerposRespuesta ==
  { CuerpoBase, [CuerpoBase EXCEPT !.deporte = Undef],
    [CuerpoBase EXCEPT !.horario = Undef] }

NextRespuesta ==
  \E r \in Reqs :
    \/ DisponibilidadStart(r, [cancha |-> Str("Padel 1"),
                               fecha |-> Str("2025-06-01")])
    \/ DisponibilidadQuery(r)
    \/ \E b \in CuerposRespuesta : ReservarStart(r, b)
    \/ ReservarCheck(r)
    \/ ReservarInsert(r)
    \/ ReservarWebhook(r)

SpecRespuesta ==
  /\ Init
  /\ [][NextRespuesta]_vars
  /\ \A r \in Reqs :
       /\ WF_vars(ReservarCheck(r))
       /\ WF_vars(ReservarInsert(r))
       /\ WF_vars(ReservarWebhook(r))

\* ------------------------------------------------------------- claims
\* Row i holds the slot (c, f, h): same triple and not cancelled.
Retiene(i, c, f, h) ==
  /\ reservas[i].cancha = c
  /\ reservas[i].fecha = f
  /\ reservas[i].horario = h
  /\ reservas[i].estado # "cancelada"

Retenido(c, f, h) == \E i \in 1..Len(reservas) : Retiene(i, c, f, h)

\* The handler of slot r, suspended at p, takes its next step.
Avanza(r, o, p) == op[r] = o /\ pc[r] = p /\ pc'[r] # p

Ids(filas) == {filas[i].id : i \in 1..Len(filas)}

\* C1: a POST /reservar whose slot is held by a non-cancelled reservation
\* when its occupancy check returns is answered 409 and the handler ends:
\* no row is inserted, no row is changed, no webhook call is made.
C1_Conflicto ==
  [][\A r \in Reqs :
       LET b == arg[r].body
       IN (/\ Avanza(r, "reservar", "check")
           /\ Retenido(b.cancha.s, b.fecha.s, b.horario.s)
           /\ resp'.status # 500)
          => /\ resp'.op = "reservar" /\ resp'.status = 409
             /\ pc'[r] = "idle"
             /\ reservas' = reservas
             /\ serial' = serial
             /\ webhookCalls' = webhookCalls]_vars

C1_Witness ==
  /\ resp.op = "reservar" /\ resp.status = 409
  /\ \E i \in 1..Len(reservas) : reservas[i].estado # "cancelada"

\* The step appends one row for the body b with the id n and nothing else.
Inserta(b, n) ==
  /\ Len(reservas') = Len(reservas) + 1
  /\ SubSeq(reservas', 1, Len(reservas)) = reservas
  /\ LET x == reservas'[Len(reservas')]
     IN /\ x.id = n
        /\ n \notin Ids(reservas)
        /\ x.estado = "confirmada"
        /\ x.cancha = b.cancha.s /\ x.fecha = b.fecha.s
        /\ x.horario = b.horario.s

Elementos(q) == {q[i] : i \in 1..Len(q)}

\* C2 as stated: a POST /reservar that passed validation and whose occupancy
\* check found the slot free is answered success with the id of a newly
\* inserted row with estado 'confirmada'.
C2_Original ==
  [][\A r \in Reqs :
       Avanza(r, "reservar", "insert")
       => /\ Inserta(arg[r].body, serial')
          /\ \/ resp'.status = 200 /\ resp'.id = serial'
             \/ pc'[r] = "webhook"]_vars

\* C2 amended: such a request either fails in the store, is answered 500
\* and leaves no row, or inserts one new row with estado 'confirmada' and a
\* fresh id and is answered success with that id (after the webhook call,
\* when a webhook is configured); every successful GET /disponibilidad
\* lists the horario of every non-cancelled row of its cancha and fecha.
C2_Reserva ==
  [][\A r \in Reqs :
       /\ Avanza(r, "reservar", "insert")
          => \/ /\ resp'.op = "reservar" /\ resp'.status = 500
                /\ pc'[r] = "idle"
                /\ reservas' = reservas
             \/ /\ Inserta(arg[r].body, serial')
                /\ \/ /\ resp'.op = "reservar" /\ resp'.status = 200
                      /\ resp'.id = serial'
                      /\ pc'[r] = "idle"
                   \/ /\ pc'[r] = "webhook"
                      /\ arg'[r].reservaId = serial'
                      /\ arg'[r].body = arg[r].body
       /\ Avanza(r, "reservar", "webhook")
          => /\ resp'.op = "reservar" /\ resp'.status = 200
             /\ resp'.id = arg[r].reservaId
             /\ \E i \in 1..Len(reservas) :
                  /\ reservas[i].id = arg[r].reservaId
                  /\ reservas[i].cancha = arg[r].body.cancha.s
                  /\ reservas[i].fecha = arg[r].body.fecha.s
                  /\ reservas[i].horario = arg[r].body.horario.s
       /\ (Avanza(r, "disponibilidad", "query") /\ resp'.status = 200)
          => \A i \in 1..Len(reservas) :
               (/\ reservas[i].cancha = arg[r].cancha.s
                /\ reservas[i].fecha = arg[r].fecha.s
                /\ reservas[i].estado # "cancelada")
               => reservas[i].horario \in Elementos(resp'.ocupados)]_vars

\* A booking was answered success and a later availability query lists it.
C2_Witness ==
  /\ resp.op = "disponibilidad" /\ resp.status = 200
  /\ resp.ocupados # <<>>
  /\ \E i \in 1..Len(reservas) :
       /\ reservas[i].estado = "confirmada"
       /\ reservas[i].horario \in Elementos(resp.ocupados)

\* C3: as long as no occupancy check has passed while another handler for
\* the same slot was between its check and its insert, no two non-cancelled
\* rows hold the same (cancha, fecha, horario).
C3_UnaPorTurno ==
  ~solapadas =>
    \A i, j \in 1..Len(reservas) :
      (i # j /\ reservas[i].estado # "cancelada")
      => ~Retiene(j, reservas[i].cancha, reservas[i].fecha, reservas[i].horario)

\* Two bookings of one slot without overlap: the first one was cancelled.
C3_Witness ==
  /\ ~solapadas
  /\ \E i, j \in 1..Len(reservas) :
       /\ i < j
       /\ reservas[i].cancha = reservas[j].cancha
       /\ reservas[i].fecha = reservas[j].fecha
       /\ reservas[i].horario = reservas[j].horario
       /\ reservas[j].estado # "cancelada"

\* C4 as stated: once an admin cancellation of an existing reservation has
\* succeeded, the row is 'cancelada' and the availability of its cancha and
\* fecha no longer lists its horario (no reservation has been created
\* since).
C4_Original ==
  [][\A r \in Reqs :
       (Avanza(r, "cancelar", "query") /\ resp'.status = 200)
       => \A i \in 1..Len(reservas) :
            reservas[i].id = arg[r].id.n
            => /\ reservas'[i].estado = "cancelada"
               /\ reservas[i].horario \notin
                    Elementos(Filtrar(reservas', reservas[i].cancha,
                                      reservas[i].fecha))]_vars

\* Every row of the slot (c, f, h) is cancelled, and there is one.
SoloCanceladas(c, f, h) ==
  /\ \E i \in 1..Len(reservas) :
       /\ reservas[i].cancha = c
       /\ reservas[i].fecha = f
       /\ reservas[i].horario = h
  /\ ~Retenido(c, f, h)

\* C5 as stated: a valid POST /reservar for a slot whose only reservations
\* are cancelled returns success and inserts a new row.
C5_Original ==
  [][\A r \in Reqs :
       LET b == arg[r].body
       IN (/\ op[r] = "reservar" /\ pc[r] \in {"check", "insert"}
           /\ pc'[r] # pc[r]
           /\ SoloCanceladas(b.cancha.s, b.fecha.s, b.horario.s))
          => \/ pc'[r] \in {"insert", "webhook"}
             \/ resp'.status = 200]_vars

\* C5 amended: for a slot whose only reservations are cancelled the
\* occupancy check, when the store answers it, never gives Conflict; the
\* insert either fails in the store (500, no row) or appends a row with an
\* id no earlier row has, leaving every earlier row, the cancelled one
\* included, as it was.
C5_LibreDeNuevo ==
  [][\A r \in Reqs :
       LET b == arg[r].body
       IN /\ (/\ Avanza(r, "reservar", "check")
              /\ SoloCanceladas(b.cancha.s, b.fecha.s, b.horario.s)
              /\ resp'.status # 500)
             => pc'[r] = "insert" /\ resp' = NoResp
          /\ (/\ Avanza(r, "reservar", "insert")
              /\ SoloCanceladas(b.cancha.s, b.fecha.s, b.horario.s))
             => \/ /\ resp'.status = 500
                   /\ reservas' = reservas
                \/ /\ Inserta(b, serial')
                   /\ \A i \in 1..Len(reservas) :
                        reservas'[i] = reservas[i]
                   /\ \/ resp'.status = 200 /\ resp'.id = serial'
                      \/ pc'[r] = "webhook"]_vars

\* A slot was booked, cancelled and booked again with success.
C5_Witness ==
  /\ resp.op = "reservar" /\ resp.status = 200
  /\ \E i, j \in 1..Len(reservas) :
       /\ i < j
       /\ reservas[j].id = resp.id
       /\ reservas[i].id # reservas[j].id
       /\ reservas[i].estado = "cancelada"
       /\ reservas[j].estado = "confirmada"
       /\ reservas[i].cancha = reservas[j].cancha
       /\ reservas[i].fecha = reservas[j].fecha
       /\ reservas[i].horario = reservas[j].horario

\* C9 as stated: an admin-authorized POST /cancelar/:id always returns
\* success; it sets the row with that id to 'cancelada' and changes no
\* other row.
C9_Original ==
  [][\A r \in Reqs :
       Avanza(r, "cancelar", "query")
       => /\ resp'.op = "cancelar" /\ resp'.status = 200
          /\ Len(reservas') = Len(reservas)
          /\ \A i \in 1..Len(reservas) :
               reservas[i].id # arg[r].id.n => reservas'[i] = reservas[i]]_vars

\* C9 amended: the cancellation either fails in the store (always so for an
\* id that is no integer), is answered 500 and changes nothing, or is
\* answered success, leaves the row with that id 'cancelada' and every
\* other row as it was; with no such row, or with that row already
\* cancelled, the table is unchanged.
C9_Cancelar ==
  [][\A r \in Reqs :
       Avanza(r, "cancelar", "query")
       => /\ resp'.op = "cancelar" /\ pc'[r] = "idle"
          /\ \/ /\ resp'.status = 500
                /\ reservas' = reservas
             \/ /\ resp'.status = 200
                /\ arg[r].id.t = "num"
                /\ Len(reservas') = Len(reservas)
                /\ \A i \in 1..Len(reservas) :
                     reservas'[i] =
                       IF reservas[i].id = arg[r].id.n
                       THEN [reservas[i] EXCEPT !.estado = "cancelada"]
                       ELSE reservas[i]
                /\ (\A i \in 1..Len(reservas) :
                      reservas[i].id = arg[r].id.n
                      => reservas[i].estado = "cancelada")
                   => reservas' = reservas
          /\ UNCHANGED <<serial, precios, tokens, webhookCalls>>]_vars

\* A cancellation succeeded where one row is cancelled and another is not.
C9_Witness ==
  /\ resp.op = "cancelar" /\ resp.status = 200
  /\ \E i, j \in 1..Len(reservas) :
       /\ reservas[i].estado = "cancelada"
       /\ reservas[j].estado = "confirmada"

\* C10: ids are unique and estado is 'confirmada' or 'cancelada'; a step
\* never removes a row and leaves every existing row as it was, except
\* that it may set its estado to 'cancelada' (so a cancelled row stays
\* cancelled and keeps its id and its other fields).
C10_SoloCancela ==
  /\ [](\A i, j \in 1..Len(reservas) :
          /\ reservas[i].estado \in {"confirmada", "cancelada"}
          /\ reservas[i].id = reservas[j].id => i = j)
  /\ [][/\ Len(reservas') >= Len(reservas)
        /\ \A i \in 1..Len(reservas) :
             \/ reservas'[i] = reservas[i]
             \/ reservas'[i] = [reservas[i] EXCEPT !.estado = "cancelada"]]_vars

\* Two rows, the first one cancelled.
C10_Witness ==
  /\ Len(reservas) = 2
  /\ reservas[1].estado = "cancelada"
  /\ reservas[2].estado = "confirmada"

AdminOps == {"admin_precios", "cancelar", "reservas"}

\* The step answers an admin route before its handler ran: the gate's 401,
\* or the 400 of the price validation.
RespondeAntes == resp'.op \in AdminOps /\ "auth" \in DOMAIN resp'.req

\* C6: a handler of an admin route is entered only with a header whose token
\* is live at that moment, and only an entered handler answers with data or
\* changes a price or a row's estado; a request whose token is not live is
\* answered 401 and changes nothing.  A token handed out by a login with
\* the configured credentials is live, passes the gate as "Bearer <token>",
\* and stays live until a logout presenting it or its expiry.
C6_Gate ==
  [][/\ \A r \in Reqs :
          (pc[r] = "idle" /\ op'[r] \in AdminOps)
          => tokenDe(arg'[r].auth) \in tokens
     /\ RespondeAntes
        => /\ resp'.status = 401 <=> tokenDe(resp'.req.auth) \notin tokens
           /\ UNCHANGED <<store, op, pc, arg>>
     /\ (resp'.op \in AdminOps /\ ~RespondeAntes)
        => \E r \in Reqs : Avanza(r, resp'.op, "query")
     /\ precios' # precios => \E r \in Reqs : Avanza(r, "admin_precios", "query")
     /\ (\E i \in 1..Len(reservas) : reservas'[i] # reservas[i])
        => \E r \in Reqs : Avanza(r, "cancelar", "query")
     /\ (resp'.op = "login" /\ resp'.status = 200)
        => /\ resp'.req.email = adminEmail /\ resp'.req.password = adminPass
           /\ resp'.token \in tokens'
     /\ \A t \in tokens :
          /\ tokenDe(<<"Bearer", " ", t>>) = t
          /\ t \notin tokens'
             => \/ resp'.op = "logout" /\ tokenDe(resp'.req.auth) = t
                \/ t \in timers /\ t \notin timers']_vars

\* A handler passed the gate and the token it presented is no longer live.
C6_Witness ==
  \E r \in Reqs :
    /\ op[r] \in AdminOps /\ pc[r] = "query"
    /\ tokenDe(arg[r].auth) \notin tokens

\* C7: a logout always answers success and removes the token of its header,
\* and no other, from the live set; a token a client knows that is not live
\* never becomes live, and an admin request presenting a token that is not
\* live is answered 401.
C7_Logout ==
  [][/\ resp'.op = "logout"
        => /\ resp'.status = 200
           /\ tokens' = tokens \ {tokenDe(resp'.req.auth)}
           /\ UNCHANGED <<store, timers, minted, op, pc, arg>>
     /\ \A t \in Conocidos : t \notin tokens => t \notin tokens'
     /\ (RespondeAntes /\ tokenDe(resp'.req.auth) \notin tokens)
        => resp'.status = 401 /\ UNCHANGED store]_vars

\* An admin request was refused for a token that was logged out (its expiry
\* is still pending).
C7_Witness ==
  /\ resp.op \in AdminOps /\ resp.status = 401
  /\ tokenDe(resp.req.auth) \in timers \ tokens

\* C8 as stated: a successful GET /precios returns the table; its fields are
\* the seeded ones; an update of an unknown field returns success and
\* changes no price; an update of one field changes no other field's price.
C8_Original ==
  [][\A r \in Reqs :
       /\ (Avanza(r, "precios", "query") /\ resp'.status = 200)
          => resp'.precios = precios
       /\ DOMAIN precios' = canchas
       /\ (Avanza(r, "admin_precios", "query")
           /\ arg[r].body.cancha.s \notin canchas)
          => resp'.status = 200 /\ precios' = precios
       /\ Avanza(r, "admin_precios", "query")
          => \A c \in canchas \ {arg[r].body.cancha.s} :
               precios'[c] = precios[c]]_vars

\* C8 amended: a successful GET /precios returns the table, whose fields are
\* the seeded ones; only a successful update changes it, and it sets the
\* price of its field, if seeded, and no other; an update that fails in the
\* store, or names an unknown field (answered success or, when the store
\* fails, 500), changes no price.
C8_Precios ==
  [][/\ DOMAIN precios' = canchas
     /\ precios' # precios
        => \E r \in Reqs :
             Avanza(r, "admin_precios", "query") /\ resp'.status = 200
     /\ \A r \in Reqs :
          /\ (Avanza(r, "precios", "query") /\ resp'.status = 200)
             => resp'.precios = precios
          /\ Avanza(r, "admin_precios", "query")
             => /\ resp'.status \in {200, 500}
                /\ resp'.status = 500 => precios' = precios
                /\ arg[r].body.cancha.s \notin canchas => precios' = precios
                /\ (resp'.status = 200 /\ arg[r].body.cancha.s \in canchas)
                   => /\ arg[r].body.precio.t = "num"
                      /\ precios'[arg[r].body.cancha.s] = arg[r].body.precio.n
                /\ \A c \in canchas \ {arg[r].body.cancha.s} :
                     precios'[c] = precios[c]]_vars

\* GET /precios answered with one updated price and one seed price.
C8_Witness ==
  /\ resp.op = "precios" /\ resp.status = 200
  /\ resp.precios = precios
  /\ \E c, d \in canchas :
       precios[c] # PrecioInicial /\ precios[d] = PrecioInicial

\* Tokens generarToken has handed out so far.
Emitidos == {generarToken(k) : k \in 1..minted}

\* C11: a successful login schedules the expiry of the token it mints, and
\* nothing else ever schedules one; an expiry fires once, removes its token
\* (and nothing else) from the live set, which changes nothing when the
\* token was logged out before; a token whose expiry has fired is never live
\* again and is refused by the gate; requests on admin routes leave the
\* pending expiries as they are.
C11_Expiry ==
  [][/\ (resp'.op = "login" /\ resp'.status = 200)
        => /\ resp'.token \notin timers
           /\ timers' = timers \cup {resp'.token}
           /\ resp'.token \in tokens'
     /\ (timers' # timers /\ resp'.op # "login")
        => \E t \in timers :
             /\ timers' = timers \ {t}
             /\ tokens' = tokens \ {t}
             /\ (t \notin tokens => tokens' = tokens)
             /\ UNCHANGED <<store, minted, webhookCalls, op, pc, arg>>
     /\ \A t \in Emitidos :
          t \notin timers => t \notin timers' /\ t \notin tokens'
     /\ (resp'.op \in AdminOps \/ \E r \in Reqs : op[r] \in AdminOps
                                                  /\ pc'[r] # pc[r])
        => timers' = timers
     /\ (RespondeAntes /\ tokenDe(resp'.req.auth) \in Emitidos \ timers)
        => resp'.status = 401]_vars

\* An admin request was refused for a token whose expiry has fired.
C11_Witness ==
  /\ resp.op \in AdminOps /\ resp.status = 401
  /\ tokenDe(resp.req.auth) \in Emitidos \ timers

\* A field that is absent or the empty string.
Vacio(v) == v.t = "undef" \/ (v.t = "str" /\ v.s = "")

\* C12: a POST /reservar with one of nombre, apellido, whatsapp, cancha,
\* fecha, horario absent or empty is answered 400 at once: its handler
\* reaches no store query, no row is inserted and no webhook call is made;
\* a GET /disponibilidad with cancha or fecha absent or empty is answered
\* 400 the same way.
C12_Validacion ==
  [][\A r \in Reqs :
       /\ (pc[r] = "idle" /\ op'[r] = "reservar")
          => \A f \in Campos : ~Vacio(arg'[r].body[f])
       /\ (pc[r] = "idle" /\ op'[r] = "disponibilidad")
          => ~Vacio(arg'[r].cancha) /\ ~Vacio(arg'[r].fecha)
       /\ (resp'.op = "reservar" /\ "body" \in DOMAIN resp'.req)
          => /\ \E f \in Campos : Vacio(resp'.req.body[f])
             /\ resp'.status = 400
             /\ UNCHANGED <<store, webhookCalls, op, pc, arg>>
       /\ (resp'.op = "disponibilidad" /\ "cancha" \in DOMAIN resp'.req)
          => /\ Vacio(resp'.req.cancha) \/ Vacio(resp'.req.fecha)
             /\ resp'.status = 400
             /\ UNCHANGED <<store, webhookCalls, op, pc, arg>>]_vars

\* A booking with an empty horario was refused while the table holds a row.
C12_Witness ==
  /\ resp.op = "reservar" /\ resp.status = 400
  /\ resp.req.body.horario = Str("")
  /\ reservas # <<>>

\* C13: an authorized POST /admin/precios is answered 400 exactly when
\* cancha is absent or empty or precio is absent; a precio of 0 (and a
\* precio of null) passes the validation, and an update that succeeds makes
\* the number it was given, 0 included, the price of its field.
C13_PrecioCero ==
  [][\A r \in Reqs :
       /\ (pc[r] = "idle" /\ op'[r] = "admin_precios")
          => /\ ~Vacio(arg'[r].body.cancha)
             /\ arg'[r].body.precio # Undef
       /\ (resp'.op = "admin_precios" /\ "body" \in DOMAIN resp'.req)
          => /\ Vacio(resp'.req.body.cancha) \/ resp'.req.body.precio = Undef
             /\ resp'.status = 400
             /\ UNCHANGED <<store, op, pc, arg>>
       /\ (/\ Avanza(r, "admin_precios", "query")
           /\ resp'.status = 200
           /\ arg[r].body.cancha.s \in canchas)
          => /\ arg[r].body.precio.t = "num"
             /\ precios'[arg[r].body.cancha.s] = arg[r].body.precio.n]_vars

\* A price update was answered success and a field costs 0.
C13_Witness ==
  /\ resp.op = "admin_precios" /\ resp.status = 200
  /\ \E c \in canchas : precios[c] = 0

\* Rows holding the slot (c, f, h) in the table filas.
Titulares(filas, c, f, h) ==
  {i \in 1..Len(filas) :
     /\ filas[i].cancha = c /\ filas[i].fecha = f /\ filas[i].horario = h
     /\ filas[i].estado # "cancelada"}

\* C14: the occupancy check of a request passes, when the store answers it
\* and no row holds the slot, also while another request for the same slot
\* is between its check and its insert; the insert that follows does not
\* look at the slot again: unless it fails in the store it adds a row with a
\* fresh id next to the row that holds the slot by then, and the request is
\* answered success with that id.
C14_DobleReserva ==
  [][\A r \in Reqs :
       LET b == arg[r].body
       IN /\ (/\ Avanza(r, "reservar", "check")
              /\ Solapa(r, b)
              /\ ~Retenido(b.cancha.s, b.fecha.s, b.horario.s)
              /\ resp'.status # 500)
             => pc'[r] = "insert" /\ resp' = NoResp /\ solapadas'
          /\ (/\ Avanza(r, "reservar", "insert")
              /\ Retenido(b.cancha.s, b.fecha.s, b.horario.s)
              /\ resp'.status # 500)
             => /\ Inserta(b, serial')
                /\ Cardinality(Titulares(reservas', b.cancha.s, b.fecha.s,
                                         b.horario.s)) >= 2
                /\ \/ resp'.status = 200 /\ resp'.id = serial'
                   \/ pc'[r] = "webhook" /\ arg'[r].reservaId = serial']_vars

\* Two requests passed the check together, both inserted and the second was
\* answered success: two non-cancelled rows with distinct ids hold one slot.
C14_Witness ==
  /\ solapadas
  /\ \A r \in Reqs : pc[r] = "idle"
  /\ resp.op = "reservar" /\ resp.status = 200
  /\ \E i, j \in 1..Len(reservas) :
       /\ i < j
       /\ reservas[i].id # reservas[j].id
       /\ reservas[j].id = resp.id
       /\ reservas[i].estado # "cancelada"
       /\ Retiene(j, reservas[i].cancha, reservas[i].fecha,
                  reservas[i].horario)

\* C15: the webhook is called only with a webhook URL configured, only by
\* the step in which an INSERT has succeeded, with the id of the new row,
\* and never twice with one id; no step answering 400, 409 or 500 calls it;
\* when the call returns or fails the table is left as it is, no further
\* call is made, and the request is answered success with the id of its
\* row, which is in the table.
C15_Webhook ==
  /\ [](/\ webhookCalls # <<>> => webhookUrl
        /\ Elementos(webhookCalls) \subseteq Ids(reservas)
        /\ \A i, j \in 1..Len(webhookCalls) :
             webhookCalls[i] = webhookCalls[j] => i = j)
  /\ [][/\ webhookCalls' # webhookCalls
           => /\ webhookUrl
              /\ webhookCalls' = Append(webhookCalls, serial')
              /\ \E r \in Reqs :
                   /\ Avanza(r, "reservar", "insert")
                   /\ pc'[r] = "webhook"
                   /\ Inserta(arg[r].body, serial')
        /\ resp'.status \in {400, 409, 500} => webhookCalls' = webhookCalls
        /\ \A r \in Reqs :
             Avanza(r, "reservar", "webhook")
             => /\ resp'.webhook \in {"ok", "error"}
                /\ resp'.op = "reservar" /\ resp'.status = 200
                /\ resp'.id = arg[r].reservaId
                /\ resp'.id \in Ids(reservas')
                /\ reservas' = reservas
                /\ webhookCalls' = webhookCalls
                /\ pc'[r] = "idle"]_vars

\* A booking was answered success although its webhook call failed; its row
\* is in the table and the webhook was called once with its id.
C15_Witness ==
  /\ resp.op = "reservar" /\ resp.status = 200 /\ resp.webhook = "error"
  /\ resp.id \in Ids(reservas)
  /\ Cardinality({i \in 1..Len(webhookCalls) : webhookCalls[i] = resp.id}) = 1

\* Awaits of a store query.
Consultas == {"check", "insert", "query"}

\* C16: a 500 is the answer of a handler whose store query has just failed,
\* and of nothing else: that handler ends there (it runs no further query
\* and gets no second response), the tables, the webhook calls and the
\* token set are as before the query, so a booking that fails at its check
\* or its insert leaves no row and calls no webhook.  A query the store
\* refuses (an INSERT without deporte, an UPDATE with an id that is no
\* integer, a price of null for a seeded field) is answered 500.
C16_Fallo ==
  [][/\ resp'.status = 500
        => /\ \E r \in Reqs :
                /\ op[r] = resp'.op /\ pc[r] \in Consultas
                /\ op'[r] = "none" /\ pc'[r] = "idle"
                /\ \A x \in Reqs \ {r} :
                     op'[x] = op[x] /\ pc'[x] = pc[x] /\ arg'[x] = arg[x]
           /\ UNCHANGED <<reservas, precios, webhookCalls, sesiones>>
     /\ \A r \in Reqs :
          /\ (Avanza(r, "reservar", "insert") /\ arg[r].body.deporte = Undef)
             => resp'.status = 500
          /\ (Avanza(r, "cancelar", "query") /\ arg[r].id.t # "num")
             => resp'.status = 500
          /\ (/\ Avanza(r, "admin_precios", "query")
              /\ arg[r].body.precio = Null
              /\ arg[r].body.cancha.s \in canchas)
             => resp'.status = 500
          /\ (op[r] # "none" /\ pc[r] \in Consultas /\ pc'[r] # pc[r])
             => \/ resp'.op = op[r] /\ pc'[r] = "idle"
                \/ /\ resp' = NoResp
                   /\ op[r] = "reservar"
                   /\ <<pc[r], pc'[r]>> \in {<<"check", "insert">>,
                                             <<"insert", "webhook">>}]_vars

\* A booking without deporte was answered 500 after a booking that went
\* through: the table holds that one row, and the webhook was called for
\* no other.
C16_Witness ==
  /\ resp.op = "reservar" /\ resp.status = 500
  /\ Len(reservas) = 1
  /\ Elementos(webhookCalls) \subseteq Ids(reservas)
  /\ \A r \in Reqs : pc[r] = "idle"

\* How many times h occurs in the sequence q.
Veces(q, h) == Cardinality({i \in 1..Len(q) : q[i] = h})

\* C17: a successful GET /disponibilidad for (cancha, fecha) lists every
\* horario as many times as there are non-cancelled rows with that cancha,
\* fecha and horario (twice for a double-booked slot, never for a row of
\* another field or date or for a cancelled row), and no step of the route
\* changes a table or the token set.
C17_Ocupados ==
  [][\A r \in Reqs :
       /\ (Avanza(r, "disponibilidad", "query") /\ resp'.status = 200)
          => LET c == arg[r].cancha.s
                 f == arg[r].fecha.s
             IN /\ \A i \in 1..Len(reservas) :
                     Veces(resp'.ocupados, reservas[i].horario)
                       = Cardinality(Titulares(reservas, c, f,
                                               reservas[i].horario))
                /\ \A h \in Elementos(resp'.ocupados) :
                     Titulares(reservas, c, f, h) # {}
       /\ (\/ resp'.op = "disponibilidad"
           \/ op[r] = "disponibilidad" /\ pc'[r] # pc[r]
           \/ op'[r] = "disponibilidad" /\ pc'[r] # pc[r])
          => UNCHANGED <<store, tokens, timers, webhookCalls>>]_vars

\* A double-booked slot is listed twice.
C17_Witness ==
  /\ resp.op = "disponibilidad" /\ resp.status = 200
  /\ \E i, j \in 1..Len(resp.ocupados) :
       i # j /\ resp.ocupados[i] = resp.ocupados[j]

\* C18: a POST /reservar gets one response: a request refused by the
\* validation is answered 400 without a handler being suspended; a
\* suspended handler sends nothing while it goes from one await to the
\* next, answers in the step in which it ends, and does end.  With a
\* webhook configured success is answered only by the step that follows the
\* webhook call; while that call is pending the row is in the table and a
\* successful GET /disponibilidad for its cancha and fecha lists its horario.
C18_UnaRespuesta ==
  /\ [][/\ resp'.op = "reservar"
           => \/ /\ resp'.status = 400
                 /\ UNCHANGED <<op, pc, arg>>
              \/ \E r \in Reqs :
                   /\ op[r] = "reservar" /\ op'[r] = "none"
                   /\ resp'.status \in {200, 409, 500}
                   /\ \A x \in Reqs \ {r} : op'[x] = op[x] /\ pc'[x] = pc[x]
        /\ (resp'.op = "reservar" /\ resp'.status = 200 /\ webhookUrl)
           => \E r \in Reqs : Avanza(r, "reservar", "webhook")
        /\ \A r \in Reqs :
             /\ (op[r] = "reservar" /\ pc'[r] # pc[r])
                => IF pc'[r] = "idle" THEN resp'.op = "reservar"
                   ELSE resp' = NoResp
             /\ (op'[r] = "reservar" /\ pc[r] = "idle") => resp' = NoResp
             /\ (/\ pc[r] = "webhook"
                 /\ \E x \in Reqs : /\ Avanza(x, "disponibilidad", "query")
                                    /\ arg[x].cancha = arg[r].body.cancha
                                    /\ arg[x].fecha = arg[r].body.fecha
                 /\ resp'.status = 200)
                => arg[r].body.horario.s \in Elementos(resp'.ocupados)]_vars
  /\ [](\A r \in Reqs :
          pc[r] = "webhook"
          => \E i \in 1..Len(reservas) :
               /\ reservas[i].id = arg[r].reservaId
               /\ Retiene(i, arg[r].body.cancha.s, arg[r].body.fecha.s,
                          arg[r].body.horario.s))
  /\ \A r \in Reqs : (op[r] = "reservar") ~> (pc[r] = "idle")

\* The availability lists the horario of a booking whose handler is still
\* waiting for the webhook and has not answered.
C18_Witness ==
  /\ resp.op = "disponibilidad" /\ resp.status = 200
  /\ \E r \in Reqs :
       /\ op[r] = "reservar" /\ pc[r] = "webhook"
       /\ arg[r].body.horario.s \in Elementos(resp.ocupados)

\* C19: the live tokens are tokens a successful login minted, whose expiry
\* is still pending, and each of them passes the gate as "Bearer <token>".
\* A login with the configured credentials adds one token that was never
\* handed out before and keeps the others; any other login is answered 401
\* and leaves the set alone; a step removes at most one token, by a logout
\* presenting it or by its expiry, and a token that left the set never
\* comes back.
C19_Tokens ==
  /\ [](/\ tokens \subseteq Emitidos
        /\ tokens \subseteq timers
        /\ \A t \in tokens : tokenDe(<<"Bearer", " ", t>>) \in tokens)
  /\ [][/\ resp'.op = "login"
           => IF /\ resp'.req.email = adminEmail
                 /\ resp'.req.password = adminPass
              THEN /\ resp'.status = 200
                   /\ resp'.token \notin Emitidos
                   /\ tokens' = tokens \cup {resp'.token}
                   /\ Cardinality(tokens') = Cardinality(tokens) + 1
              ELSE /\ resp'.status = 401
                   /\ UNCHANGED <<tokens, timers, minted>>
        /\ tokens' # tokens
           => \/ resp'.op = "login" /\ resp'.status = 200
              \/ \E t \in tokens :
                   /\ tokens' = tokens \ {t}
                   /\ \/ resp'.op = "logout" /\ tokenDe(resp'.req.auth) = t
                      \/ t \in timers \ timers'
        /\ \A t \in Emitidos : t \notin tokens => t \notin tokens']_vars

\* After a refused login two tokens of two logins are live together.
C19_Witness ==
  /\ resp.op = "login" /\ resp.status = 401
  /\ Cardinality(tokens) >= 2

====
